---- MODULE Spec2Model ----
(***************************************************************************)
(* Model of morph/morphemizer.py (MorphMan): the five morphemizers, the    *)
(* memoizing getMorphemesFromExpr, the morphemizer registry and the        *)
(* Vietnamese compound-word vocabulary.                                    *)
(*                                                                         *)
(* Text is a sequence of characters, each character a string.  The        *)
(* alphabet holds one or two characters of every class the regular         *)
(* expressions and str methods of the source distinguish: lower-case       *)
(* letters, an upper-case letter, a space, a decimal digit, the            *)
(* underscore, a punctuation mark and a CJK ideograph (written "zh").      *)
(***************************************************************************)
EXTENDS Integers, Sequences, FiniteSets, TLC

\* ------------------------------------------------------------------ bounds
\* longest expression drawn for the pure tokenizer runs
MaxLen == 4
\* longest expression drawn for the Vietnamese runs
MaxVietLen == 3
\* most rows of a vocabulary file
MaxRows == 2
\* most VietnameseMorphemizer constructions in one Vietnamese run
MaxConstruct == 2
\* stand-in for lru_cache's maxsize (131072 in the source), scaled down
CacheCap == 2
\* most objects ever constructed in one registry run
MaxObjects == 9

\* ---------------------------------------------------------------- alphabet
LowerLetters == {"a", "b"}
UpperLetters == {"A"}
Letters == LowerLetters \cup UpperLetters
Digits == {"1"}
Spaces == {" "}
Underscore == {"_"}
Punct == {"-"}
\* stands for one ideograph of deps/zhon/hanzi.characters
Cjk == {"zh"}
Alphabet == Letters \cup Digits \cup Spaces \cup Underscore \cup Punct

\* \w of the re module on str patterns: alphanumerics and the underscore
IsWordChar(c) == c \in Letters \cup Digits \cup Underscore \cup Cjk
\* the class [^\s\d]
IsTokenChar(c) == c \notin Spaces /\ c \notin Digits

\* str.lower(), one character
LowerChar(c) == IF c = "A" THEN "a" ELSE c
\* str.lower()
lower(s) == [i \in 1..Len(s) |-> LowerChar(s[i])]

\* all texts over alphabet A of length at most n
RECURSIVE TextsUpTo(_, _)
TextsUpTo(A, n) ==
    IF n = 0 THEN {<<>>}
    ELSE LET shorter == TextsUpTo(A, n - 1)
         IN  shorter \cup { Append(s, c) : s \in {t \in shorter : Len(t) = n - 1}, c \in A }

\* s[a+1 .. b] (Python's s[a:b])
Slice(s, a, b) == [i \in 1..(b - a) |-> s[a + i]]

\* ' ' in word  /  old in s : s has t as a contiguous sub-text
Contains(s, t) ==
    \E a \in 0..(Len(s) - Len(t)) : Slice(s, a, a + Len(t)) = t

\* ---------------------------------------------------------------- Morpheme
\* Morpheme(norm, base, inflected, read, pos, subPos)
Morpheme(norm, base, inflected, read, pos, subPos) ==
    [norm |-> norm, base |-> base, inflected |-> inflected, read |-> read,
     pos |-> pos, subPos |-> subPos]

\* ------------------------------------------------------- re.findall, \b...\b
\* \b at offset p of s (0 = before the first character)
IsBoundary(s, p) ==
    LET before == p >= 1 /\ IsWordChar(s[p])
        after == p < Len(s) /\ IsWordChar(s[p + 1])
    IN  before # after

\* end of the greedy run of [^\s\d] that starts at offset p
RECURSIVE RunEnd(_, _)
RunEnd(s, p) ==
    IF p < Len(s) /\ IsTokenChar(s[p + 1]) THEN RunEnd(s, p + 1) ELSE p

\* the match of \b[^\s\d]+\b attempted at offset p: its end offset, or -1.
\* The greedy run backtracks to the last offset that is a word boundary.
MatchEnd(s, p) ==
    IF ~IsBoundary(s, p) THEN -1
    ELSE LET ends == { q \in (p + 1)..RunEnd(s, p) : IsBoundary(s, q) }
         IN  IF ends = {} THEN -1 ELSE CHOOSE q \in ends : \A r \in ends : r <= q

\* re.findall(r"\b[^\s\d]+\b", s, re.UNICODE) scanning from offset p
RECURSIVE FindWordsFrom(_, _)
FindWordsFrom(s, p) ==
    IF p >= Len(s) THEN <<>>
    ELSE LET q == MatchEnd(s, p)
         IN  IF q = -1 THEN FindWordsFrom(s, p + 1)
             ELSE <<Slice(s, p, q)>> \o FindWordsFrom(s, q)

FindWords(s) == FindWordsFrom(s, 0)

\* SpaceMorphemizer._getMorphemesFromExpr
SpaceGetMorphemes(expression) ==
    LET found == FindWords(expression)
        word_list == [i \in 1..Len(found) |-> lower(found[i])]
    IN  [i \in 1..Len(word_list) |->
            Morpheme(word_list[i], word_list[i], word_list[i], word_list[i],
                     "UNKNOWN", "UNKNOWN")]

\* ------------------------------------------------------------ str.replace
\* s.replace(old, new) for a non-empty old: every occurrence, left to right,
\* without overlap
RECURSIVE Replace(_, _, _)
Replace(s, old, new) ==
    IF Len(s) < Len(old) THEN s
    ELSE IF Slice(s, 0, Len(old)) = old
         THEN new \o Replace(Slice(s, Len(old), Len(s)), old, new)
         ELSE <<s[1]>> \o Replace(Slice(s, 1, Len(s)), old, new)

\* -------------------------------------------------- the vocabulary file
\* rows[0][0] of a study plan, which is not a frequency list: the text
\* '#study_plan_frequency', character by character (len 21)
study_plan_header ==
    <<"#", "s", "t", "u", "d", "y", "_", "p", "l", "a", "n", "_",
      "f", "r", "e", "q", "u", "e", "n", "c", "y">>

\* first columns a vocabulary row may hold
WordPool ==
    { <<"a", " ", "b">>, <<"a">>, <<"b">>, <<"b", " ", "a", " ", "b">>,
      <<"A", " ", "b">> }

\* a row of the file as csv.reader yields it: its fields; a blank line is []
Rows == { <<w>> : w \in WordPool } \cup { <<>>, <<study_plan_header>> }

RECURSIVE RowListsUpTo(_)
RowListsUpTo(n) ==
    IF n = 0 THEN {<<>>}
    ELSE LET shorter == RowListsUpTo(n - 1)
         IN  shorter \cup { Append(rs, r) : rs \in {t \in shorter : Len(t) = n - 1}, r \in Rows }

\* what io.open / csv.reader find at cfg('path_frequency')
VocabFiles ==
    { [kind |-> "absent", rows |-> <<>>],
      [kind |-> "denied", rows |-> <<>>],
      [kind |-> "undecodable", rows |-> <<>>] }
    \cup { [kind |-> "rows", rows |-> rs] : rs \in RowListsUpTo(MaxRows) }

\* list(dict(zip(keys, ...)).keys()): the keys without repetition, in the
\* order of their first occurrence
RECURSIVE DictKeys(_)
DictKeys(keys) ==
    IF keys = <<>> THEN <<>>
    ELSE LET n == Len(keys)
             front == DictKeys(Slice(keys, 0, n - 1))
         IN  IF \E i \in 1..(n - 1) : keys[i] = keys[n] THEN front
             ELSE Append(front, keys[n])

\* one step of the stable words.sort(key=len): w goes after every word that
\* is not longer
RECURSIVE InsertByLen(_, _)
InsertByLen(sorted, w) ==
    IF sorted = <<>> THEN <<w>>
    ELSE IF Len(sorted[Len(sorted)]) <= Len(w) THEN Append(sorted, w)
         ELSE Append(InsertByLen(Slice(sorted, 0, Len(sorted) - 1), w),
                     sorted[Len(sorted)])

\* words.sort(key=len)
RECURSIVE SortByLen(_)
SortByLen(words) ==
    IF words = <<>> THEN <<>>
    ELSE InsertByLen(SortByLen(Slice(words, 0, Len(words) - 1)), words[Len(words)])

\* words.reverse()
Reverse(words) == [i \in 1..Len(words) |-> words[Len(words) + 1 - i]]

\* the loop of _setKnownWords over words[from..]: appends to both lists
RECURSIVE AppendKnown(_, _, _, _)
AppendKnown(words, from, kw, kwu) ==
    IF from > Len(words) THEN [kw |-> kw, kwu |-> kwu]
    ELSE IF Contains(words[from], <<" ">>)
         THEN AppendKnown(words, from + 1, Append(kw, words[from]),
                          Append(kwu, Replace(words[from], <<" ">>, <<"_">>)))
         ELSE AppendKnown(words, from + 1, kw, kwu)

\* VietnameseMorphemizer._setKnownWords on the lists kw, kwu
setKnownWords(words, kw, kwu) ==
    AppendKnown(Reverse(SortByLen(words)), 1, kw, kwu)

\* VietnameseMorphemizer.__init__ with the class lists kw, kwu: the exception
\* that leaves it ("none" when it returns) and the lists afterwards
VietnameseInit(f, kw, kwu) ==
    LET same == [raised |-> "none", kw |-> kw, kwu |-> kwu]
    IN  CASE f.kind = "absent" -> same
          [] f.kind = "denied" -> [same EXCEPT !.raised = "PermissionError"]
          [] f.kind = "undecodable" -> [same EXCEPT !.raised = "UnicodeDecodeError"]
          [] OTHER ->
               LET rows == f.rows
               IN  IF rows = <<>> \/ rows[1] = <<>> THEN same
                   ELSE IF rows[1][1] = study_plan_header THEN same
                   ELSE IF \E i \in 1..Len(rows) : rows[i] = <<>> THEN same
                   ELSE LET known == setKnownWords(
                                 DictKeys([i \in 1..Len(rows) |-> rows[i][1]]), kw, kwu)
                        IN  [raised |-> "none", kw |-> known.kw, kwu |-> known.kwu]

\* the substitution loop of VietnameseMorphemizer._getMorphemesFromExpr
RECURSIVE JoinKnown(_, _, _, _)
JoinKnown(e_low, i, kw, kwu) ==
    IF i > Len(kw) THEN e_low
    ELSE JoinKnown(Replace(e_low, kw[i], kwu[i]), i + 1, kw, kwu)

\* VietnameseMorphemizer._getMorphemesFromExpr
VietGetMorphemes(expression, kw, kwu) ==
    LET e_low == JoinKnown(lower(expression), 1, kw, kwu)
        tokens == SpaceGetMorphemes(e_low)
    IN  [i \in 1..Len(tokens) |->
            [tokens[i] EXCEPT !.base = Replace(tokens[i].base, <<"_">>, <<" ">>)]]

\* ------------------------------------------------- the external services
\* what the mecab process is doing: down, or answering as the build "v1"
MecabStates == {"down", "v1"}
\* what jieba's posseg is doing
JiebaStates == {"down", "up"}

\* an outcome of a call: the exception that leaves it ("none" when it
\* returns), the value returned, and the calls made to an external service
Returned(value, extCalls) == [raised |-> "none", value |-> value, extCalls |-> extCalls]
Raised(exception, extCalls) == [raised |-> exception, value |-> <<>>, extCalls |-> extCalls]

\* mecab_wrapper.getMorphemesMecab: opaque; one tuple for the whole text
getMorphemesMecab(text, mecab) ==
    IF mecab = "down" THEN Raised("OSError", 1)
    ELSE Returned(IF text = <<>> THEN <<>>
                  ELSE <<Morpheme(text, text, text, text, mecab, "*")>>, 1)

\* mecab_wrapper.getMecabIdentity
getMecabIdentity(mecab) ==
    IF mecab = "down" THEN Raised("OSError", 1) ELSE Returned(mecab, 1)

\* deps.jieba.posseg.cut: opaque; pairs (word, flag)
posseg_cut(text, jieba) ==
    IF jieba = "down" THEN Raised("Exception", 1)
    ELSE Returned([i \in 1..Len(text) |-> [word |-> <<text[i]>>, flag |-> "x"]], 1)

\* ------------------------------------------- the other three morphemizers
\* re.findall('[%s]' % characters, expression)
RECURSIVE FindCjk(_)
FindCjk(expression) ==
    IF expression = <<>> THEN <<>>
    ELSE IF expression[1] \in Cjk
         THEN <<expression[1]>> \o FindCjk(Tail(expression))
         ELSE FindCjk(Tail(expression))

\* space_char_regex.sub('', expression)
RECURSIVE RemoveSpaces(_)
RemoveSpaces(expression) ==
    IF expression = <<>> THEN <<>>
    ELSE IF expression[1] = " " THEN RemoveSpaces(Tail(expression))
         ELSE <<expression[1]>> \o RemoveSpaces(Tail(expression))

\* MecabMorphemizer._getMorphemesFromExpr
MecabGetMorphemes(expression, mecab) ==
    getMorphemesMecab(RemoveSpaces(expression), mecab)

\* CjkCharMorphemizer._getMorphemesFromExpr
CjkGetMorphemes(expression) ==
    LET found == FindCjk(expression)
    IN  [i \in 1..Len(found) |->
            Morpheme(<<found[i]>>, <<found[i]>>, <<found[i]>>, <<found[i]>>,
                     "CJK_CHAR", "UNKNOWN")]

\* JiebaMorphemizer._getMorphemesFromExpr
JiebaGetMorphemes(expression, jieba) ==
    LET cut == posseg_cut(FindCjk(expression), jieba)
    IN  IF cut.raised # "none" THEN cut
        ELSE Returned([i \in 1..Len(cut.value) |->
                          Morpheme(cut.value[i].word, cut.value[i].word,
                                   cut.value[i].word, cut.value[i].word,
                                   cut.value[i].flag, "UNKNOWN")], cut.extCalls)

\* the classes, in the order getAllMorphemizers constructs them
MorphemizerClasses ==
    <<"SpaceMorphemizer", "MecabMorphemizer", "JiebaMorphemizer",
      "CjkCharMorphemizer", "VietnameseMorphemizer">>

\* self._getMorphemesFromExpr(expression), dispatched on the class of self
DispatchGetMorphemes(class, expression, kw, kwu, mecabState, jiebaState) ==
    CASE class = "SpaceMorphemizer" -> Returned(SpaceGetMorphemes(expression), 0)
      [] class = "MecabMorphemizer" -> MecabGetMorphemes(expression, mecabState)
      [] class = "JiebaMorphemizer" -> JiebaGetMorphemes(expression, jiebaState)
      [] class = "CjkCharMorphemizer" -> Returned(CjkGetMorphemes(expression), 0)
      [] OTHER -> Returned(VietGetMorphemes(expression, kw, kwu), 0)

\* MecabMorphemizer.getDescription without its try: the failure leaves it
MecabGetDescription_no_try(mecabState) ==
    LET query == getMecabIdentity(mecabState)
    IN  IF query.raised # "none" THEN query
        ELSE Returned(<<"Japanese ", query.value>>, query.extCalls)

\* MecabMorphemizer.getDescription
MecabGetDescription(mecabState) ==
    LET query == getMecabIdentity(mecabState)
        identity == IF query.raised # "none" THEN "UNAVAILABLE" ELSE query.value
    IN  Returned(<<"Japanese ", identity>>, query.extCalls)

\* self.getDescription(), dispatched on the class of self
DispatchGetDescription(class, mecabState) ==
    CASE class = "SpaceMorphemizer" -> Returned(<<"Language w/ Spaces">>, 0)
      [] class = "MecabMorphemizer" -> MecabGetDescription(mecabState)
      [] class = "JiebaMorphemizer" -> Returned(<<"Chinese">>, 0)
      [] class = "CjkCharMorphemizer" -> Returned(<<"CJK Characters">>, 0)
      [] OTHER -> Returned(<<"Vietnamese">>, 0)

\* ------------------------------------------------------------- lru_cache
\* the cache is a sequence of entries, least recently used first
CacheKeys(c) == { c[i].key : i \in 1..Len(c) }
CacheIndex(c, key) == CHOOSE i \in 1..Len(c) : c[i].key = key
CacheWithout(c, i) == [j \in 1..(Len(c) - 1) |-> IF j < i THEN c[j] ELSE c[j + 1]]

\* no key: what a call that evicts nothing reports as evicted
NoKey == <<0, <<>>>>

\* how a caller passes the expression to the bound method:
\* m.getMorphemesFromExpr(e) or m.getMorphemesFromExpr(expression=e)
CallForms == {"positional", "keyword"}

\* functools._make_key(args, kwds, typed=False): the positional arguments,
\* then, when there are keyword arguments, a mark and every (name, value)
\* pair.  self is always positional in a call of a bound method.
make_key(self, form, e) ==
    IF form = "positional" THEN <<self, e>>
    ELSE <<self, "kwd_mark", "expression", e>>

\* one call through the wrapper lru_cache(maxsize) puts around the function:
\* the cache afterwards, the outcome, whether the function ran, and the key
\* of the entry the call pushed out
lru_cache_call(c, maxsize, key, outcome) ==
    IF key \in CacheKeys(c)
    THEN LET i == CacheIndex(c, key)
         IN  [cache |-> Append(CacheWithout(c, i), c[i]),
              outcome |-> Returned(c[i].value, 0), computed |-> FALSE,
              evicted |-> NoKey]
    ELSE IF outcome.raised # "none"
         THEN [cache |-> c, outcome |-> outcome, computed |-> TRUE, evicted |-> NoKey]
         ELSE LET entry == [key |-> key, value |-> outcome.value]
              IN  IF Len(c) >= maxsize
                  THEN [cache |-> Append(CacheWithout(c, 1), entry),
                        outcome |-> outcome, computed |-> TRUE, evicted |-> c[1].key]
                  ELSE [cache |-> Append(c, entry),
                        outcome |-> outcome, computed |-> TRUE, evicted |-> NoKey]

\* ----------------------------------------------------------------- state
VARIABLES
    file,                      \* the vocabulary file at cfg('path_frequency')
    mecab,                     \* the state of the mecab process
    jieba,                     \* the state of jieba's posseg
    heap,                      \* the class of every object constructed; an
                               \* object's identity is its index
    _known_words,              \* VietnameseMorphemizer._known_words
    _known_words_underscored,  \* VietnameseMorphemizer._known_words_underscored
    morphemizers,              \* the global; <<>> stands for None
    morphemizers_by_name,      \* the global dict, a function on its keys
    cache,                     \* the cache of Morphemizer.getMorphemesFromExpr
    expression,                \* the text a tokenizer run works on
    ret                        \* the last call and how it ended

vars == <<file, mecab, jieba, heap, _known_words, _known_words_underscored,
          morphemizers, morphemizers_by_name, cache, expression, ret>>

\* the record of a call
Call(op, self, form, arg, outcome, computed, evicted) ==
    [op |-> op, self |-> self, form |-> form, arg |-> arg, raised |-> outcome.raised,
     value |-> outcome.value, extCalls |-> outcome.extCalls, computed |-> computed,
     evicted |-> evicted]

NoCall == Call("none", 0, "none", <<>>, Returned(<<>>, 0), FALSE, NoKey)

\* Morphemizer.getName
getName(h, self) == h[self]

\* the dict with the keys of d and key, key mapped to value
DictSet(d, key, value) ==
    [k \in (DOMAIN d) \cup {key} |-> IF k = key THEN value ELSE d[k]]

\* the loop of getAllMorphemizers that fills morphemizers_by_name
RECURSIVE RegisterNames(_, _, _, _)
RegisterNames(d, h, ms, i) ==
    IF i > Len(ms) THEN d
    ELSE RegisterNames(DictSet(d, getName(h, ms[i]), ms[i]), h, ms, i + 1)

\* getAllMorphemizers() on the given globals: the exception that leaves it,
\* the value returned and the globals afterwards
getAllMorphemizers(f, h, kw, kwu, ms, byName) ==
    IF ms # <<>>
    THEN [raised |-> "none", value |-> ms, heap |-> h, kw |-> kw, kwu |-> kwu,
          morphemizers |-> ms, by_name |-> byName]
    ELSE LET built == VietnameseInit(f, kw, kwu)
             h2 == h \o MorphemizerClasses
             fresh == [i \in 1..Len(MorphemizerClasses) |-> Len(h) + i]
         IN  IF built.raised # "none"
             THEN [raised |-> built.raised, value |-> <<>>, heap |-> h2,
                   kw |-> built.kw, kwu |-> built.kwu,
                   morphemizers |-> ms, by_name |-> byName]
             ELSE [raised |-> "none", value |-> fresh, heap |-> h2,
                   kw |-> built.kw, kwu |-> built.kwu,
                   morphemizers |-> fresh,
                   by_name |-> RegisterNames(byName, h2, fresh, 1)]

\* the names callers ask getMorphemizerByName for
Names == { MorphemizerClasses[i] : i \in 1..Len(MorphemizerClasses) } \cup {"Klingon"}

\* the expressions callers segment in the cache runs: one text that every
\* strategy finds a morpheme in
MainExprs == { <<"zh", " ", "a">> }

\* ------------------------------------------------------ registry actions
\* a caller calls getAllMorphemizers()
CallGetAllMorphemizers ==
    /\ morphemizers # <<>> \/ Len(heap) + Len(MorphemizerClasses) <= MaxObjects
    /\ LET r == getAllMorphemizers(file, heap, _known_words, _known_words_underscored,
                                   morphemizers, morphemizers_by_name)
       IN  /\ heap' = r.heap
           /\ _known_words' = r.kw
           /\ _known_words_underscored' = r.kwu
           /\ morphemizers' = r.morphemizers
           /\ morphemizers_by_name' = r.by_name
           /\ ret' = Call("getAllMorphemizers", 0, "none", <<>>,
                          [raised |-> r.raised, value |-> r.value, extCalls |-> 0],
                          FALSE, NoKey)
    /\ UNCHANGED <<file, mecab, jieba, cache, expression>>

\* a caller calls getMorphemizerByName(name)
CallGetMorphemizerByName(name) ==
    /\ morphemizers # <<>> \/ Len(heap) + Len(MorphemizerClasses) <= MaxObjects
    /\ LET r == getAllMorphemizers(file, heap, _known_words, _known_words_underscored,
                                   morphemizers, morphemizers_by_name)
           found == IF name \in DOMAIN r.by_name THEN r.by_name[name] ELSE 0
       IN  /\ heap' = r.heap
           /\ _known_words' = r.kw
           /\ _known_words_underscored' = r.kwu
           /\ morphemizers' = r.morphemizers
           /\ morphemizers_by_name' = r.by_name
           /\ ret' = Call("getMorphemizerByName", 0, "positional", name,
                          [raised |-> r.raised,
                           value |-> IF r.raised = "none" THEN found ELSE 0,
                           extCalls |-> 0], FALSE, NoKey)
    /\ UNCHANGED <<file, mecab, jieba, cache, expression>>

\* the instances a caller holds: those the registry handed out
Held == { morphemizers[i] : i \in 1..Len(morphemizers) }

\* a caller calls self.getMorphemesFromExpr(e) or
\* self.getMorphemesFromExpr(expression=e)
CallGetMorphemesFromExpr(self, form, e) ==
    /\ self \in Held
    /\ LET r == lru_cache_call(cache, CacheCap, make_key(self, form, e),
                    DispatchGetMorphemes(heap[self], e, _known_words,
                                         _known_words_underscored, mecab, jieba))
       IN  /\ cache' = r.cache
           /\ ret' = Call("getMorphemesFromExpr", self, form, e, r.outcome, r.computed,
                          r.evicted)
    /\ UNCHANGED <<file, mecab, jieba, heap, _known_words, _known_words_underscored,
                   morphemizers, morphemizers_by_name, expression>>

\* a caller calls self.getDescription()
CallGetDescription(self) ==
    /\ self \in Held
    /\ ret' = Call("getDescription", self, "none", <<>>,
                   DispatchGetDescription(heap[self], mecab), FALSE, NoKey)
    /\ UNCHANGED <<file, mecab, jieba, heap, _known_words, _known_words_underscored,
                   morphemizers, morphemizers_by_name, cache, expression>>

\* the mecab process stops, starts or is replaced by another build
MecabChanges ==
    /\ mecab' \in MecabStates \ {mecab}
    /\ UNCHANGED <<file, jieba, heap, _known_words, _known_words_underscored,
                   morphemizers, morphemizers_by_name, cache, expression, ret>>

\* jieba stops or starts working
JiebaChanges ==
    /\ jieba' \in JiebaStates \ {jieba}
    /\ UNCHANGED <<file, mecab, heap, _known_words, _known_words_underscored,
                   morphemizers, morphemizers_by_name, cache, expression, ret>>

\* the vocabulary files of the registry runs
RegistryFiles ==
    { [kind |-> "absent", rows |-> <<>>],
      [kind |-> "denied", rows |-> <<>>],
      [kind |-> "rows", rows |-> << <<<<"a", " ", "b">>>> >>] }

\* the vocabulary files of the runs that segment through the cache
CacheRunFiles ==
    { [kind |-> "denied", rows |-> <<>>],
      [kind |-> "rows", rows |-> << <<<<"a", " ", "b">>>> >>] }

\* the module after import: nothing constructed, the globals as lines 53-54
\* and 128-129 set them
Imported ==
    /\ mecab \in MecabStates
    /\ jieba \in JiebaStates
    /\ heap = <<>>
    /\ _known_words = <<>>
    /\ _known_words_underscored = <<>>
    /\ morphemizers = <<>>
    /\ morphemizers_by_name = <<>>
    /\ cache = <<>>
    /\ expression = <<>>
    /\ ret = NoCall

Init ==
    /\ file \in CacheRunFiles
    /\ Imported

InitRegistry ==
    /\ file \in RegistryFiles
    /\ Imported

\* callers that fetch the strategies and segment expressions with them:
\* every instance the registry handed out, in both call forms
Next ==
    \/ CallGetAllMorphemizers
    \/ \E self \in 1..MaxObjects, form \in CallForms, e \in MainExprs :
          CallGetMorphemesFromExpr(self, form, e)
    \/ MecabChanges
    \/ JiebaChanges

Spec == Init /\ [][Next]_vars

\* callers that use the registry and ask the strategies to describe themselves
NextRegistry ==
    \/ CallGetAllMorphemizers
    \/ \E name \in Names : CallGetMorphemizerByName(name)
    \/ \E self \in 1..MaxObjects : CallGetDescription(self)
    \/ MecabChanges
    \/ JiebaChanges

SpecRegistry == InitRegistry /\ [][NextRegistry]_vars

\* -------------------------------------------------------- tokenizer runs
\* the state shared by the runs of one strategy: nothing constructed
Idle ==
    /\ mecab = "down"
    /\ jieba = "down"
    /\ heap = <<>>
    /\ _known_words = <<>>
    /\ _known_words_underscored = <<>>
    /\ morphemizers = <<>>
    /\ morphemizers_by_name = <<>>
    /\ cache = <<>>
    /\ ret = NoCall

\* a run of SpaceMorphemizer._getMorphemesFromExpr on one expression
InitSpace ==
    /\ file = [kind |-> "absent", rows |-> <<>>]
    /\ expression \in TextsUpTo(Alphabet, MaxLen)
    /\ Idle

RunSpace ==
    /\ ret.op = "none"
    /\ ret' = Call("SpaceMorphemizer._getMorphemesFromExpr", 0, "positional", expression,
                   Returned(SpaceGetMorphemes(expression), 0), TRUE, NoKey)
    /\ UNCHANGED <<file, mecab, jieba, heap, _known_words, _known_words_underscored,
                   morphemizers, morphemizers_by_name, cache, expression>>

NextSpace == RunSpace

SpecSpace == InitSpace /\ [][NextSpace]_vars

\* runs of the Vietnamese strategy: constructions, then segmentation of one
\* expression
InitViet ==
    /\ file \in VocabFiles
    /\ expression \in TextsUpTo(Alphabet, MaxVietLen)
    /\ Idle

\* VietnameseMorphemizer()
ConstructViet ==
    /\ Len(heap) < MaxConstruct
    /\ LET r == VietnameseInit(file, _known_words, _known_words_underscored)
       IN  /\ _known_words' = r.kw
           /\ _known_words_underscored' = r.kwu
           /\ heap' = IF r.raised = "none"
                      THEN Append(heap, "VietnameseMorphemizer") ELSE heap
           /\ ret' = Call("VietnameseMorphemizer",
                          IF r.raised = "none" THEN Len(heap) + 1 ELSE 0, "none", <<>>,
                          [raised |-> r.raised, value |-> <<>>, extCalls |-> 0],
                          FALSE, NoKey)
    /\ UNCHANGED <<file, mecab, jieba, morphemizers, morphemizers_by_name, cache,
                   expression>>

\* self._known_words: the instance has no attribute of its own, the lookup
\* ends at the class attribute
KnownWordsOf(self) == _known_words
KnownWordsUnderscoredOf(self) == _known_words_underscored

\* self._getMorphemesFromExpr(expression) on a VietnameseMorphemizer
RunViet(self) ==
    /\ self \in 1..Len(heap)
    /\ ret' = Call("VietnameseMorphemizer._getMorphemesFromExpr", self, "positional",
                   expression,
                   Returned(VietGetMorphemes(expression, KnownWordsOf(self),
                                             KnownWordsUnderscoredOf(self)), 0),
                   TRUE, NoKey)
    /\ UNCHANGED <<file, mecab, jieba, heap, _known_words, _known_words_underscored,
                   morphemizers, morphemizers_by_name, cache, expression>>

NextViet ==
    \/ ConstructViet
    \/ \E self \in 1..MaxConstruct : RunViet(self)

SpecViet == InitViet /\ [][NextViet]_vars

\* ======================================================================
\* Properties of the registry runs (Spec)
\* ======================================================================
Segmented(r) == r.op = "getMorphemesFromExpr"
ExternalClasses == {"MecabMorphemizer", "JiebaMorphemizer"}
\* the external service behind an instance of class c is failing
ServiceDown(c) ==
    \/ c = "MecabMorphemizer" /\ mecab = "down"
    \/ c = "JiebaMorphemizer" /\ jieba = "down"

\* the step is a call of getMorphemesFromExpr, recorded in ret'
SegmentStep ==
    /\ Segmented(ret')
    /\ CallGetMorphemesFromExpr(ret'.self, ret'.form, ret'.arg)

\* the step is a call of getDescription, recorded in ret'
DescribeStep ==
    /\ ret'.op = "getDescription"
    /\ CallGetDescription(ret'.self)

\* C1: two consecutive calls of getMorphemesFromExpr with the same expression
\* on the same instance run _getMorphemesFromExpr only once (the second call
\* is a cache hit) and, when both return, return equal sequences.
C1_SecondCallIsCacheHit ==
    [][( /\ Segmented(ret)
         /\ SegmentStep
         /\ ret'.self = ret.self /\ ret'.arg = ret.arg )
       => /\ ~ret'.computed
          /\ (ret.raised = "none" /\ ret'.raised = "none")
                => ret'.value = ret.value]_vars

\* C4: every getAllMorphemizers() returns without error the five instances
\* of the first initialization, in the order Space, Mecab, Jieba, CjkChar,
\* Vietnamese, and once built the collection is never rebuilt;
\* getMorphemizerByName(n) returns without error the instance of that
\* collection whose getName() is n, and None (0) when n is none of the five
\* names.
C4_RegistryStable ==
    [][ /\ (morphemizers # <<>> => morphemizers' = morphemizers /\ heap' = heap)
        /\ (ret'.op = "getAllMorphemizers" =>
               /\ ret'.raised = "none"
               /\ ret'.value = morphemizers'
               /\ [i \in 1..Len(ret'.value) |-> getName(heap', ret'.value[i])]
                    = MorphemizerClasses)
        /\ (ret'.op = "getMorphemizerByName" =>
               /\ ret'.raised = "none"
               /\ IF ret'.arg = "Klingon" THEN ret'.value = 0
                  ELSE /\ ret'.value \in { morphemizers'[i] : i \in 1..Len(morphemizers') }
                       /\ getName(heap', ret'.value) = ret'.arg) ]_vars

\* C5: the cache is private to an instance: an entry is pushed out of it
\* only by a call on the instance the entry belongs to, never by a call on
\* another instance.
C5_EvictedOnlyByOwnInstance ==
    Segmented(ret) /\ ret.evicted # NoKey => ret.evicted[1] = ret.self

\* C9: getDescription() returns for every instance in every state of the
\* external services; on a MecabMorphemizer whose identity query fails it
\* returns 'Japanese ' followed by 'UNAVAILABLE'.
C9_DescriptionNeverRaises ==
    [][DescribeStep =>
          /\ ret'.raised = "none"
          /\ (heap[ret'.self] = "MecabMorphemizer"
                /\ getMecabIdentity(mecab).raised # "none")
              => ret'.value = <<"Japanese ", "UNAVAILABLE">>]_vars

\* getDescription() has answered on a MecabMorphemizer while mecab was down
C9_Witness ==
    /\ ret.op = "getDescription"
    /\ heap[ret.self] = "MecabMorphemizer"
    /\ ret.value = <<"Japanese ", "UNAVAILABLE">>

\* C10: a call self.getMorphemesFromExpr(e) on a MecabMorphemizer or a
\* JiebaMorphemizer during which the external service fails raises after
\* one external call and leaves the cache as it was; the next call with the
\* same e on the same instance then asks the external service again, once,
\* and raises again when the service is still failing, or returns the
\* answer of the service and caches it when the service has recovered.
C10_FailureNotCached ==
    [][ /\ ( /\ SegmentStep
             /\ heap[ret'.self] \in ExternalClasses
             /\ ret'.raised # "none" )
           => /\ ret'.extCalls = 1
              /\ cache' = cache
        /\ ( /\ SegmentStep
             /\ heap[ret'.self] \in ExternalClasses
             /\ Segmented(ret) /\ ret.raised # "none"
             /\ ret.self = ret'.self /\ ret.arg = ret'.arg )
           => /\ ret'.computed
              /\ ret'.extCalls = 1
              /\ IF ServiceDown(heap[ret'.self])
                 THEN ret'.raised # "none" /\ cache' = cache
                 ELSE /\ ret'.raised = "none"
                      /\ ret'.value = DispatchGetMorphemes(heap[ret'.self], ret'.arg,
                                         _known_words, _known_words_underscored,
                                         mecab, jieba).value
                      /\ cache'[Len(cache')] =
                            [key |-> make_key(ret'.self, ret'.form, ret'.arg),
                             value |-> ret'.value]
      ]_vars

\* ======================================================================
\* Properties of the tokenizer runs (SpecSpace, SpecViet)
\* ======================================================================
\* the base fields of a morpheme sequence
Bases(ms) == [i \in 1..Len(ms) |-> ms[i].base]

HasDigit(t) == \E i \in 1..Len(t) : t[i] \in Digits
HasWordChar(t) == \E i \in 1..Len(t) : IsWordChar(t[i])

\* the whitespace-delimited tokens of s, left to right
RECURSIVE TokensFrom(_, _, _)
TokensFrom(s, i, current) ==
    IF i > Len(s) THEN (IF current = <<>> THEN <<>> ELSE <<current>>)
    ELSE IF s[i] \in Spaces
         THEN (IF current = <<>> THEN <<>> ELSE <<current>>) \o TokensFrom(s, i + 1, <<>>)
         ELSE TokensFrom(s, i + 1, Append(current, s[i]))

\* a token from its first to its last word character
Word(t) ==
    LET idx == { i \in 1..Len(t) : IsWordChar(t[i]) }
        first == CHOOSE i \in idx : \A j \in idx : i <= j
        last == CHOOSE i \in idx : \A j \in idx : j <= i
    IN  Slice(t, first - 1, last)

\* what C7 has a token contribute: nothing when it holds a digit, else its
\* word in lower case
Contribution(t) ==
    IF HasDigit(t) \/ ~HasWordChar(t) THEN <<>> ELSE <<lower(Word(t))>>

RECURSIVE Contributions(_, _)
Contributions(tokens, i) ==
    IF i > Len(tokens) THEN <<>>
    ELSE Contribution(tokens[i]) \o Contributions(tokens, i + 1)

\* C7: the space strategy emits, in order, the lower-cased word of every
\* whitespace-delimited token without a digit, and nothing at all for a
\* token that holds a digit anywhere, with or without punctuation next to
\* it.
C7_DigitTokenSkipped ==
    ret.op = "SpaceMorphemizer._getMorphemesFromExpr" =>
        Bases(ret.value) = Contributions(TokensFrom(expression, 1, <<>>), 1)

VietRun(r) == r.op = "VietnameseMorphemizer._getMorphemesFromExpr"

\* C2: with zero compounds loaded, the Vietnamese strategy returns for every
\* expression the morphemes of the space strategy, equal in every field,
\* and does not raise.
C2_DegradesToSpace ==
    VietRun(ret) /\ KnownWordsOf(ret.self) = <<>> =>
        /\ ret.raised = "none"
        /\ ret.value = SpaceGetMorphemes(expression)

\* the file cannot be read, or has no first column in some row
Unloadable(f) ==
    \/ f.kind \in {"absent", "denied", "undecodable"}
    \/ f.rows = <<>>
    \/ \E i \in 1..Len(f.rows) : f.rows[i] = <<>>

\* C3: VietnameseMorphemizer() returns whatever the loading of the
\* vocabulary does; when the file is absent, unreadable or malformed the
\* instance has zero known compounds.
C3_ConstructionNeverRaises ==
    ret.op = "VietnameseMorphemizer" =>
        /\ ret.raised = "none"
        /\ Unloadable(file) => KnownWordsOf(ret.self) = <<>>

\* the first columns of the rows of a file
FileWords(f) ==
    { f.rows[i][1] : i \in { j \in 1..Len(f.rows) : f.rows[j] # <<>> } }

\* C6: when the vocabulary file holds a compound L and a shorter entry S
\* that is part of L, an expression that contains L yields, at L's place
\* (after the morphemes of the text before it), one morpheme whose base is L.
C6_LongestMatch ==
    VietRun(ret) /\ file.kind = "rows" =>
        \A L \in FileWords(file), S \in FileWords(file) :
            ( /\ Contains(L, <<" ">>)
              /\ Len(S) < Len(L)
              /\ Contains(L, S) )
            => \A a \in 0..(Len(expression) - Len(L)) :
                  Slice(expression, a, a + Len(L)) = L =>
                     LET k == 1 + Len(VietGetMorphemes(Slice(expression, 0, a),
                                         KnownWordsOf(ret.self),
                                         KnownWordsUnderscoredOf(ret.self)))
                     IN  k <= Len(ret.value) /\ ret.value[k].base = L

\* words is sorted by descending length
SortedByLenDesc(words) ==
    \A i \in 1..(Len(words) - 1) : Len(words[i]) >= Len(words[i + 1])

\* C8: once an instance is constructed its known-compound list never
\* changes, is sorted by descending length, and the joined-marker list is
\* its parallel.
C8_VocabularyFixed ==
    [][\A self \in 1..Len(heap) :
          /\ KnownWordsOf(self)' = KnownWordsOf(self)
          /\ KnownWordsUnderscoredOf(self)' = KnownWordsUnderscoredOf(self)
          /\ SortedByLenDesc(KnownWordsOf(self)')
          /\ Len(KnownWordsUnderscoredOf(self)') = Len(KnownWordsOf(self)')
          /\ \A i \in 1..Len(KnownWordsOf(self)') :
                KnownWordsUnderscoredOf(self)'[i]
                   = Replace(KnownWordsOf(self)'[i], <<" ">>, <<"_">>)]_vars

====
